---------------------------- MODULE Spec2Model ----------------------------
(***************************************************************************)
(* 1 Smile a Day: the entry store (server/db.js), the entries route        *)
(* (server/routes/entries.js) and the streak / missed-day computations.    *)
(*                                                                         *)
(* Representation of JavaScript and SQL values:                            *)
(*  - a Date at local midnight is its day number (days since 1970-01-01);  *)
(*    an Invalid Date (time value NaN) is the value NaN below;             *)
(*  - a date string is the record [y, m, d, sfx]: the text "YYYY-MM-DD"    *)
(*    followed by the text sfx ("" for a plain ISO date);                  *)
(*  - a text string is run-length encoded: a sequence of <<char, count>>   *)
(*    runs with counts > 0 and neighbouring runs of different chars;       *)
(*  - undefined / null / SQL NULL is None, a present value v is Some(v);   *)
(*  - the entries table is a bag (multiset) of rows.                       *)
(***************************************************************************)
EXTENDS Integers, Sequences, FiniteSets, Bags, TLC

VARIABLES
    entries,    \* the entries table: a bag of rows
    users,      \* the users table: user id -> [signup_date]
    now,        \* the server clock: the current local calendar day (day number)
    lastReq,    \* the request the server handled most recently
    resp,       \* the response to lastReq
    inflight,   \* client -> the upsert request it has sent and that is not handled yet
    applied,    \* history: the upserts handled while / right after another was in flight
    lastWrite,  \* history: (user, date) -> arguments of the last createOrUpdateEntry call
    overwrote,  \* history: the last upsert replaced a row that held another text
    dashboard,  \* the browser's state.user and state.dashboard (None when logged out)
    state,      \* the browser's state object: the fields besides dashboard
    pending     \* the browser's calls to the server that have not returned: a bag

client == <<state, pending>>

vars ==
    <<entries, users, now, lastReq, resp, inflight, applied, lastWrite, overwrote,
      dashboard, state, pending>>

----------------------------------------------------------------------------
(* Bounds of the model *)

MaxTicks == 2       \* the clock advances at most this many days
MaxRows == 3        \* the entries table holds at most this many rows
MaxOver == 2        \* the longest drawn run of days exceeds the lookback by this much
Window == 5         \* drawn entry sets cover today and this many days before it
MaxMonths == 2      \* the calendar is moved at most this many months from the current one
MaxPending == 2     \* the browser has at most this many calls in flight
MaxId == 3          \* row ids run up to this value

(* Program constants *)

MIN_CHARS == 100
LOOKBACK == 365
None == <<>>
Some(v) == <<v>>
NaN == 0 - 1

Users == {1, 2}
\* the email address user u registered with
Email(u) == IF u = 1 THEN "one@example.com" ELSE "two@example.com"
\* a row of the users table
User(u, signupDate) == [email |-> Email(u), signup_date |-> signupDate]
Clients == {1, 2}

----------------------------------------------------------------------------
(* Calendar: what Date.getFullYear / getMonth / getDate and the Date       *)
(* constructor compute, in civil days                                      *)

\* [y, m, d] of a day number (Date.prototype.getFullYear/getMonth+1/getDate)
CivilFromDays(n) ==
    LET z == n + 719468
        era == z \div 146097
        doe == z - era * 146097
        yoe == (doe - doe \div 1460 + doe \div 36524 - doe \div 146096) \div 365
        doy == doe - (365 * yoe + yoe \div 4 - yoe \div 100)
        mp == (5 * doy + 2) \div 153
        d == doy - (153 * mp + 2) \div 5 + 1
        m == IF mp < 10 THEN mp + 3 ELSE mp - 9
        y == yoe + era * 400 + (IF m <= 2 THEN 1 ELSE 0)
    IN  [y |-> y, m |-> m, d |-> d]

\* day number of year y, month m, day d (MakeDay); d may run past the month's end
DaysFromCivil(y, m, d) ==
    LET yy == IF m <= 2 THEN y - 1 ELSE y
        era == yy \div 400
        yoe == yy - era * 400
        mm == IF m > 2 THEN m - 3 ELSE m + 9
        doy == (153 * mm + 2) \div 5 + d - 1
        doe == yoe * 365 + yoe \div 4 - yoe \div 100 + doy
    IN  era * 146097 + doe - 719468

\* formatDate(date): "YYYY-MM-DD" of a Date
formatDate(date) ==
    LET c == CivilFromDays(date)
    IN  [y |-> c.y, m |-> c.m, d |-> c.d, sfx |-> ""]

\* new Date(s + 'T00:00:00'): the local midnight of an ISO date string; any text
\* between the date and the appended time part makes the string unparseable
\* (Invalid Date).  V8 accepts a day of 1..31 in every month and carries the
\* overflow into the next month.
NewDate(s) ==
    IF s.sfx = "" /\ s.m \in 1..12 /\ s.d \in 1..31
    THEN DaysFromCivil(s.y, s.m, 1) + s.d - 1
    ELSE NaN

\* the day the model's clock starts at: 2024-02-28, so that the next days are the
\* leap day and the first of March
Day0 == DaysFromCivil(2024, 2, 28)

\* a > b on time values: false when either side is NaN
TimeGt(a, b) == a # NaN /\ b # NaN /\ a > b
\* a >= b on time values: false when either side is NaN
TimeGe(a, b) == a # NaN /\ b # NaN /\ a >= b

\* s < t for date strings as SQLite's BINARY collation and JS compare them
\* (4-digit years and zero-padded fields: field by field, then the suffix)
StrLess(s, t) ==
    \/ s.y < t.y
    \/ s.y = t.y /\ s.m < t.m
    \/ s.y = t.y /\ s.m = t.m /\ s.d < t.d
    \/ s.y = t.y /\ s.m = t.m /\ s.d = t.d /\ s.sfx = "" /\ t.sfx # ""

----------------------------------------------------------------------------
(* Text strings *)

IsSpace(ch) == ch \in {" ", "\t", "\n"}

RECURSIVE DropLeft(_)
DropLeft(s) ==
    IF s # <<>> /\ IsSpace(Head(s)[1]) THEN DropLeft(Tail(s)) ELSE s

RECURSIVE DropRight(_)
DropRight(s) ==
    IF s # <<>> /\ IsSpace(s[Len(s)][1])
    THEN DropRight(SubSeq(s, 1, Len(s) - 1))
    ELSE s

\* String.prototype.trim
trim(s) == DropRight(DropLeft(s))

\* String.prototype.length
RECURSIVE length(_)
length(s) == IF s = <<>> THEN 0 ELSE Head(s)[2] + length(Tail(s))

----------------------------------------------------------------------------
(* The entries table and its operations (server/db.js) *)

Row(userId, date, text, rating, skipped) ==
    [user_id |-> userId, date |-> date, text |-> text, rating |-> rating,
     skipped |-> skipped]

\* the rows of the table (SELECT * FROM entries)
Rows(E) == BagToSet(E)

\* the rows that conflict with (userId, date) under UNIQUE(user_id, date)
Conflicts(E, userId, date) ==
    {r \in Rows(E) : r.user_id = userId /\ r.date = date}

\* a plain INSERT: adds a row whether or not the key is taken
createOrUpdateEntry_insertOnly(E, userId, date, text, skipped, rating) ==
    E (+) SetToBag({Row(userId, date, text, rating, IF skipped THEN 1 ELSE 0)})

\* an upsert whose DO UPDATE SET list leaves rating out
createOrUpdateEntry_keepRating(E, userId, date, text, skipped, rating) ==
    LET hit == Conflicts(E, userId, date)
        sk == IF skipped THEN 1 ELSE 0
    IN  IF hit = {}
        THEN E (+) SetToBag({Row(userId, date, text, rating, sk)})
        ELSE LET old == CHOOSE r \in hit : TRUE
             IN  (E (-) SetToBag({old}))
                 (+) SetToBag({[old EXCEPT !.text = text, !.skipped = sk]})

\* an upsert under a key of date alone: it takes over another user's row
createOrUpdateEntry_dateKey(E, userId, date, text, skipped, rating) ==
    LET hit == {r \in Rows(E) : r.date = date}
        new == Row(userId, date, text, rating, IF skipped THEN 1 ELSE 0)
    IN  [r \in Rows(E) \ hit |-> E[r]] (+) SetToBag({new})

\* INSERT OR REPLACE under a key of user_id alone: the user's other rows go
createOrUpdateEntry_onePerUser(E, userId, date, text, skipped, rating) ==
    LET keep == {r \in Rows(E) : r.user_id # userId}
    IN  [r \in keep |-> E[r]]
        (+) SetToBag({Row(userId, date, text, rating, IF skipped THEN 1 ELSE 0)})

\* INSERT ... ON CONFLICT(user_id, date) DO UPDATE SET text, rating, skipped
createOrUpdateEntry(E, userId, date, text, skipped, rating) ==
    LET hit == Conflicts(E, userId, date)
        sk == IF skipped THEN 1 ELSE 0
    IN  IF hit = {}
        THEN E (+) SetToBag({Row(userId, date, text, rating, sk)})
        ELSE LET old == CHOOSE r \in hit : TRUE
             IN  (E (-) SetToBag({old}))
                 (+) SetToBag({[old EXCEPT !.text = text, !.rating = rating,
                                           !.skipped = sk]})

\* SELECT * FROM entries WHERE user_id = ? AND date = ?  (a row, or undefined)
getEntry(E, userId, date) ==
    LET hit == Conflicts(E, userId, date)
    IN  IF hit = {} THEN None ELSE Some(CHOOSE r \in hit : TRUE)

RECURSIVE Reverse(_)
Reverse(s) == IF s = <<>> THEN <<>> ELSE Reverse(Tail(s)) \o <<Head(s)>>

\* a <= b for date strings
StrLe(s, t) == ~StrLess(t, s)

\* the rows of S ordered by date ascending
RECURSIVE RowsAsc(_)
RowsAsc(S) ==
    IF S = {} THEN <<>>
    ELSE LET lo == CHOOSE x \in S : \A y \in S : ~StrLess(y.date, x.date)
         IN  <<lo>> \o RowsAsc(S \ {lo})

\* the result list of a SELECT over the rows S of the table E, ordered by date
\* ascending: every stored copy of a row is returned
RECURSIVE Copies(_, _)
Copies(E, list) ==
    IF list = <<>> THEN <<>>
    ELSE [i \in 1..CopiesIn(Head(list), E) |-> Head(list)] \o Copies(E, Tail(list))

\* SELECT * FROM entries WHERE user_id = ? ORDER BY date DESC
getAllEntries(E, userId) ==
    Reverse(Copies(E, RowsAsc({r \in Rows(E) : r.user_id = userId})))

\* the first and last date strings of the range of getEntriesForMonth
MonthStart(year, month) == [y |-> year, m |-> month, d |-> 1, sfx |-> ""]
MonthEnd(year, month) == [y |-> year, m |-> month, d |-> 31, sfx |-> ""]

\* a month range that ends at the 30th
getEntriesForMonth_to30(E, userId, year, month) ==
    Copies(E, RowsAsc({r \in Rows(E) :
        /\ r.user_id = userId
        /\ StrLe(MonthStart(year, month), r.date)
        /\ StrLe(r.date, [MonthEnd(year, month) EXCEPT !.d = 30])}))

\* SELECT * FROM entries WHERE user_id = ? AND date >= ? AND date <= ?
\* ORDER BY date ASC, with the bounds YYYY-MM-01 and YYYY-MM-31
getEntriesForMonth(E, userId, year, month) ==
    Copies(E, RowsAsc({r \in Rows(E) :
        /\ r.user_id = userId
        /\ StrLe(MonthStart(year, month), r.date)
        /\ StrLe(r.date, MonthEnd(year, month))}))

\* WHERE user_id = ? AND skipped = 0 AND text IS NOT NULL
Qualifying(E, userId) ==
    {r \in Rows(E) : r.user_id = userId /\ r.skipped = 0 /\ r.text # None}

\* the count taken over the qualifying rows of every user
getTotalEntries_allUsers(E, userId) ==
    BagCardinality([r \in {q \in Rows(E) : q.skipped = 0 /\ q.text # None} |-> E[r]])

\* SELECT COUNT(*) over the qualifying rows
getTotalEntries(E, userId) ==
    BagCardinality([r \in Qualifying(E, userId) |-> E[r]])

\* a random pick that is always the qualifying row of the earliest date
getRandomEntry_oldest(E, userId) ==
    LET q == Qualifying(E, userId)
    IN  IF q = {} THEN {None} ELSE {Some(RowsAsc(q)[1])}

\* SELECT * ... WHERE user_id = ? AND skipped = 0 AND text IS NOT NULL
\* ORDER BY RANDOM() LIMIT 1: the set of rows the statement can return
\* (None: undefined, no row)
getRandomEntry(E, userId) ==
    LET q == Qualifying(E, userId)
    IN  IF q = {} THEN {None} ELSE {Some(r) : r \in q}

\* the value of streak when the loop of getStreak ends: the loop leaves at the
\* first i for which the day today - i has no entry, or at i = LOOKBACK
StreakLoop(dates, today) ==
    CHOOSE streak \in 0..LOOKBACK :
        /\ \A i \in 0..(streak - 1) : formatDate(today - i) \in dates
        /\ streak = LOOKBACK \/ formatDate(today - streak) \notin dates

\* a streak that is kept alive by yesterday's entry while today has none
getStreak_graceDay(E, userId, today) ==
    LET dates == {r.date : r \in Qualifying(E, userId)}
    IN  IF dates = {} THEN 0
        ELSE IF formatDate(today) \in dates
             THEN StreakLoop(dates, today)
             ELSE StreakLoop(dates, today - 1)

getStreak(E, userId, today) ==
    LET dates == {r.date : r \in Qualifying(E, userId)}
    IN  IF dates = {} THEN 0 ELSE StreakLoop(dates, today)

\* ORDER BY date ASC
RECURSIVE SortAsc(_)
SortAsc(S) ==
    IF S = {} THEN <<>>
    ELSE LET lo == CHOOSE x \in S : \A y \in S : ~StrLess(y, x)
         IN  <<lo>> \o SortAsc(S \ {lo})

\* Math.round((currDate - prevDate) / 86400000): NaN when a date is invalid
DiffDays(prevDate, currDate) ==
    IF prevDate = NaN \/ currDate = NaN THEN NaN ELSE currDate - prevDate

Max(a, b) == IF a >= b THEN a ELSE b

RECURSIVE LongestLoop(_, _, _, _)
LongestLoop(list, i, longestStreak, currentStreak) ==
    IF i > Len(list) THEN longestStreak
    ELSE IF DiffDays(NewDate(list[i - 1]), NewDate(list[i])) = 1
         THEN LongestLoop(list, i + 1, Max(longestStreak, currentStreak + 1),
                          currentStreak + 1)
         ELSE LongestLoop(list, i + 1, longestStreak, 1)

\* the loop run without the early return for an empty list
getLongestStreak_noEmptyCheck(E, userId) ==
    LongestLoop(SortAsc({r.date : r \in Qualifying(E, userId)}), 2, 1, 1)

getLongestStreak(E, userId) ==
    LET list == SortAsc({r.date : r \in Qualifying(E, userId)})
    IN  IF Len(list) = 0 THEN 0 ELSE LongestLoop(list, 2, 1, 1)

\* the loop of getMissedDays: from yesterday back to the signup day
RECURSIVE MissedLoop(_, _, _, _, _)
MissedLoop(E, userId, signup, checkDate, missedDays) ==
    IF TimeGe(checkDate, signup)
    THEN MissedLoop(E, userId, signup, checkDate - 1,
                    IF getEntry(E, userId, formatDate(checkDate)) = None
                    THEN Append(missedDays, formatDate(checkDate))
                    ELSE missedDays)
    ELSE missedDays

\* the walk started at today instead of yesterday
getMissedDays_fromToday(E, userId, signupDate, today) ==
    Reverse(MissedLoop(E, userId, NewDate(signupDate), today, <<>>))

getMissedDays(E, userId, signupDate, today) ==
    Reverse(MissedLoop(E, userId, NewDate(signupDate), today - 1, <<>>))

----------------------------------------------------------------------------
(* The entries route (server/routes/entries.js) *)

Ok(body) == [status |-> 200, body |-> body]
Bad(error) == [status |-> 400, body |-> [error |-> error]]

\* the text check applied to skipped requests too
TextRequired_ignoresSkip(r) ==
    r.text = None \/ r.text[1] = <<>> \/ trim(r.text[1]) = <<>>

\* !skipped && (!text || !text.trim())
TextRequired(r) ==
    ~r.skipped /\ (r.text = None \/ r.text[1] = <<>> \/ trim(r.text[1]) = <<>>)

\* !skipped && text.trim().length < MIN_CHARS
TextTooShort(r) == ~r.skipped /\ length(trim(r.text[1])) < MIN_CHARS

\* the rating check written as  rating && ![1, 2, 3].includes(rating)
RatingInvalid_truthy(r) ==
    r.rating # None /\ r.rating[1] # 0 /\ r.rating[1] \notin {1, 2, 3}

\* rating !== undefined && rating !== null && ![1, 2, 3].includes(rating)
RatingInvalid(r) == r.rating # None /\ r.rating[1] \notin {1, 2, 3}

\* a date check that also refuses days before the user's signup date
DateInFuture_orBeforeSignup(r, today) ==
    \/ TimeGt(NewDate(r.date[1]), today)
    \/ TimeGt(NewDate(users[r.user].signup_date), NewDate(r.date[1]))

\* entryDate > today, with entryDate = new Date(date + 'T00:00:00')
DateInFuture(r, today) == TimeGt(NewDate(r.date[1]), today)

\* skipped ? null : text.trim()
StoredText(r) == IF r.skipped THEN None ELSE Some(trim(r.text[1]))

\* the rating passed on as  rating || null, also for a skipped day
StoredRating_asGiven(r) ==
    IF r.rating = None \/ r.rating[1] = 0 THEN None ELSE r.rating

\* skipped ? null : (rating || null)
StoredRating(r) ==
    IF r.skipped \/ r.rating = None \/ r.rating[1] = 0 THEN None ELSE r.rating

\* router.post('/'): the response, the table afterwards, and the arguments
\* passed to createOrUpdateEntry (None when it was not called)
PostHandler(E, r, today) ==
    LET reject(error) == [resp |-> Bad(error), entries |-> E, write |-> None]
    IN  IF r.date = None THEN reject("Date is required")
        ELSE IF TextRequired(r) THEN reject("Entry text is required")
        ELSE IF TextTooShort(r) THEN reject("Entry must be at least 100 characters")
        ELSE IF RatingInvalid(r) THEN reject("Invalid rating value")
        ELSE IF DateInFuture(r, today)
             THEN reject("Cannot create entry for future date")
        ELSE [resp |-> Ok([message |-> IF r.skipped THEN "Day skipped"
                                                    ELSE "Entry saved",
                           date |-> r.date[1],
                           rating |-> StoredRating(r),
                           skipped |-> r.skipped]),
              entries |-> createOrUpdateEntry(E, r.user, r.date[1], StoredText(r),
                                              r.skipped, StoredRating(r)),
              write |-> Some([user |-> r.user, date |-> r.date[1],
                              text |-> StoredText(r), rating |-> StoredRating(r),
                              skipped |-> r.skipped])]

\* todayEntry ? { date, text, rating, skipped: !!skipped } : null
EntryView(e) ==
    IF e = None THEN None
    ELSE Some([date |-> e[1].date, text |-> e[1].text, rating |-> e[1].rating,
               skipped |-> e[1].skipped # 0])

\* router.get('/dashboard')
DashboardHandler(E, U, userId, today) ==
    Ok([streak |-> getStreak(E, userId, today),
        missedDays |-> getMissedDays(E, userId, U[userId].signup_date, today),
        todayEntry |-> EntryView(getEntry(E, userId, formatDate(today))),
        totalEntries |-> getTotalEntries(E, userId),
        today |-> formatDate(today)])

\* router.get('/dashboard') with its three readings of the clock told apart:
\* new Date() in the handler (today), in getStreak (atStreak) and in
\* getMissedDays (atMissed).  DashboardHandler is the case of the three
\* readings falling on one day.
DashboardHandlerAt(E, U, userId, today, atStreak, atMissed) ==
    Ok([streak |-> getStreak(E, userId, atStreak),
        missedDays |-> getMissedDays(E, userId, U[userId].signup_date, atMissed),
        todayEntry |-> EntryView(getEntry(E, userId, formatDate(today))),
        totalEntries |-> getTotalEntries(E, userId),
        today |-> formatDate(today)])

\* router.get('/action/stats')
StatsHandler(E, userId, today) ==
    Ok([totalEntries |-> getTotalEntries(E, userId),
        currentStreak |-> getStreak(E, userId, today),
        longestStreak |-> getLongestStreak(E, userId)])

NotFound(error) == [status |-> 404, body |-> [error |-> error]]

\* the entry under each key of the object built by assigning acc[entry.date]
\* for the entries of list in order: a later entry of the same date replaces an
\* earlier one
ByDate(list) ==
    [d \in {list[i].date : i \in DOMAIN list} |->
        list[CHOOSE i \in DOMAIN list :
                /\ list[i].date = d
                /\ \A j \in DOMAIN list : list[j].date = d => j <= i]]

\* router.get('/month/:year/:month')
MonthHandler(E, userId, year, month) ==
    LET summary(entry) == [text |-> entry.text, rating |-> entry.rating,
                           skipped |-> entry.skipped # 0]
        acc == ByDate(getEntriesForMonth(E, userId, year, month))
    IN  Ok([entries |-> [d \in DOMAIN acc |-> summary(acc[d])]])

\* router.get('/:date')
EntryHandler(E, userId, date) ==
    LET entry == getEntry(E, userId, date)
    IN  IF entry = None THEN NotFound("Entry not found")
        ELSE Ok([date |-> entry[1].date, text |-> entry[1].text,
                 rating |-> entry[1].rating, skipped |-> entry[1].skipped # 0])

\* router.get('/action/random'), for the row (or None) the statement returned
RandomHandler(entry) ==
    IF entry = None THEN NotFound("No entries found")
    ELSE Ok([date |-> entry[1].date, text |-> entry[1].text,
             rating |-> entry[1].rating])

\* an export that labels every row 'Small win'
RatingLabel_always(rating) == Some("Small win")

\* entry.rating ? ratingLabels[entry.rating] : null
RatingLabel(rating) ==
    IF rating = None \/ rating[1] = 0 THEN None
    ELSE IF rating[1] = 1 THEN Some("Small win")
    ELSE IF rating[1] = 2 THEN Some("Made my day")
    ELSE IF rating[1] = 3 THEN Some("Pure joy")
    ELSE None

\* router.get('/action/export'); exportedAt is the clock at the model's
\* granularity of a day
ExportHandler(E, U, userId, today) ==
    LET item(entry) == [text |-> entry.text, rating |-> entry.rating,
                        ratingLabel |-> RatingLabel(entry.rating),
                        skipped |-> entry.skipped # 0]
        acc == ByDate(getAllEntries(E, userId))
    IN  Ok([exportedAt |-> formatDate(today),
            version |-> 3,
            user |-> [email |-> U[userId].email],
            entries |-> [d \in DOMAIN acc |-> item(acc[d])],
            stats |-> [totalEntries |-> getTotalEntries(E, userId),
                       currentStreak |-> getStreak(E, userId, today)]])

----------------------------------------------------------------------------
(* Requests a client can send *)

TextA == << <<"a", MIN_CHARS>> >>
PaddedB == << <<" ", 1>>, <<"b", MIN_CHARS>>, <<"\n", 2>> >>
PaddedShort == << <<" ", 1>>, <<"a", MIN_CHARS - 1>>, <<" ", 1>> >>
Blank == << <<" ", 3>> >>
Empty == <<>>

\* a full ISO timestamp of the day, as Date.prototype.toISOString gives it
Stamp(day) == [formatDate(day) EXCEPT !.sfx = "T10:00:00.000Z"]

\* the date values sent: tomorrow's date, a timestamp of tomorrow, and the date
\* of the day after (as seen from the day the clock starts at)
SentDates ==
    {Some(formatDate(Day0 + 1)), Some(Stamp(Day0 + 1)), Some(formatDate(Day0 + 2))}

Payload(text, rating, skipped) ==
    [text |-> text, rating |-> rating, skipped |-> skipped]

\* bodies that pass the text check: skips and saves, with ratings absent, valid,
\* 0 and out of range
RatedPayloads ==
    {Payload(None, None, TRUE), Payload(None, Some(3), TRUE),
     Payload(None, Some(4), TRUE), Payload(Some(TextA), None, FALSE),
     Payload(Some(TextA), Some(0), FALSE), Payload(Some(PaddedB), Some(2), FALSE)}

\* bodies that fail the text check
TextlessPayloads ==
    {Payload(t, None, FALSE) : t \in {None, Some(Empty), Some(Blank), Some(PaddedShort)}}

PostRequest(u, d, p) ==
    [op |-> "post", user |-> u, date |-> d, text |-> p.text, rating |-> p.rating,
     skipped |-> p.skipped]

\* three bodies that are accepted: a skip, a save, and a save of another text
\* with a rating
StoredPayloads ==
    {Payload(None, None, TRUE), Payload(Some(TextA), None, FALSE),
     Payload(Some(PaddedB), Some(2), FALSE)}

\* The handlers treat every user alike, so one user sends every date value
\* with every body, and a second user saves and skips one date beside them.
Requests ==
    {PostRequest(1, d, p) :
        d \in SentDates \cup {None}, p \in RatedPayloads \cup TextlessPayloads}
    \cup {PostRequest(2, Some(formatDate(Day0 + 1)), p) : p \in StoredPayloads}

----------------------------------------------------------------------------
(* State machine *)

NoRequest == [op |-> "none"]

\* const state = { user: null, token: null, currentDate: new Date(),
\* monthEntries: {}, loading: false, showProfile: false, profileStats: null }
InitialState(date) ==
    [token |-> None, user |-> None, currentDate |-> date, monthEntries |-> <<>>,
     loading |-> FALSE, showProfile |-> FALSE, profileStats |-> None]
NoResponse == [status |-> 0]

Init ==
    /\ entries = EmptyBag
    /\ users = [u \in Users |-> User(u, formatDate(Day0))]
    /\ now = Day0
    /\ lastReq = NoRequest
    /\ resp = NoResponse
    /\ inflight = [c \in Clients |-> None]
    /\ applied = <<>>
    /\ lastWrite = <<>>
    /\ overwrote = FALSE
    /\ dashboard = None
    /\ state = InitialState(now)
    /\ pending = EmptyBag

\* the history of writes after the handler's result res
Written(res) ==
    IF res.write = None THEN lastWrite
    ELSE LET w == res.write[1]
             k == <<w.user, w.date>>
         IN  [x \in DOMAIN lastWrite \cup {k} |->
                 IF x = k THEN w ELSE lastWrite[x]]

Overwrites(res) ==
    /\ res.write # None
    /\ \E old \in Conflicts(entries, res.write[1].user, res.write[1].date) :
            old.text # res.write[1].text

\* the server handles the upsert request r as one step (the handler is synchronous)
Post(r) ==
    LET res == PostHandler(entries, r, now)
    IN  /\ BagCardinality(res.entries) <= MaxRows
        /\ entries' = res.entries
        /\ lastReq' = r
        /\ resp' = res.resp
        /\ lastWrite' = Written(res)
        /\ overwrote' = Overwrites(res)
        /\ UNCHANGED <<client, users, now, inflight, applied, dashboard>>

\* midnight passes
Tick ==
    /\ now < Day0 + MaxTicks
    /\ now' = now + 1
    /\ UNCHANGED <<client, entries, users, lastReq, resp, inflight, applied, lastWrite,
                   overwrote, dashboard>>

GetDashboard(u) ==
    /\ lastReq' = [op |-> "dashboard", user |-> u]
    /\ resp' = DashboardHandler(entries, users, u, now)
    /\ UNCHANGED <<client, entries, users, now, inflight, applied, lastWrite, overwrote,
                   dashboard>>

\* a stats read that records the visit in the user's row
GetStats_touch(u) ==
    /\ lastReq' = [op |-> "stats", user |-> u]
    /\ resp' = StatsHandler(entries, u, now)
    /\ users' = [users EXCEPT ![u].signup_date = formatDate(now)]
    /\ UNCHANGED <<client, entries, now, inflight, applied, lastWrite, overwrote, dashboard>>

GetStats(u) ==
    /\ lastReq' = [op |-> "stats", user |-> u]
    /\ resp' = StatsHandler(entries, u, now)
    /\ UNCHANGED <<client, entries, users, now, inflight, applied, lastWrite, overwrote,
                   dashboard>>

GetEntry(u, date) ==
    /\ lastReq' = [op |-> "entry", user |-> u, date |-> date]
    /\ resp' = EntryHandler(entries, u, date)
    /\ UNCHANGED <<client, entries, users, now, inflight, applied, lastWrite, overwrote,
                   dashboard>>

GetMonth(u, year, month) ==
    /\ lastReq' = [op |-> "month", user |-> u, year |-> year, month |-> month]
    /\ resp' = MonthHandler(entries, u, year, month)
    /\ UNCHANGED <<client, entries, users, now, inflight, applied, lastWrite, overwrote,
                   dashboard>>

GetRandom(u) ==
    /\ lastReq' = [op |-> "random", user |-> u]
    /\ \E entry \in getRandomEntry(entries, u) : resp' = RandomHandler(entry)
    /\ UNCHANGED <<client, entries, users, now, inflight, applied, lastWrite, overwrote,
                   dashboard>>

GetExport(u) ==
    /\ lastReq' = [op |-> "export", user |-> u]
    /\ resp' = ExportHandler(entries, users, u, now)
    /\ UNCHANGED <<client, entries, users, now, inflight, applied, lastWrite, overwrote,
                   dashboard>>

\* the months asked for: those of the days the clock passes
AskedMonths == {CivilFromDays(Day0 + k).m : k \in 0..MaxTicks}

Next ==
    \/ \E r \in Requests : Post(r)
    \/ Tick
    \/ \E u \in Users : GetDashboard(u)
    \/ \E u \in Users : GetStats(u)
    \/ \E u \in Users : \E d \in SentDates : GetEntry(u, d[1])
    \/ \E u \in Users : \E m \in AskedMonths : GetMonth(u, CivilFromDays(Day0).y, m)
    \/ \E u \in Users : GetRandom(u)
    \/ \E u \in Users : GetExport(u)

Spec == Init /\ [][Next]_vars

----------------------------------------------------------------------------
(* Concurrent upserts: requests in flight, handled one at a time in any    *)
(* order (the handler is synchronous and the statement atomic)             *)

RaceRequests ==
    {PostRequest(u, Some(formatDate(Day0 + 1)), p) : u \in Users, p \in StoredPayloads}

\* client c sends an upsert request
Send(c, r) ==
    /\ inflight[c] = None
    /\ inflight' = [inflight EXCEPT ![c] = Some(r)]
    /\ UNCHANGED <<client, entries, users, now, lastReq, resp, applied, lastWrite, overwrote,
                   dashboard>>

\* the server handles the request of client c
Deliver(c) ==
    /\ inflight[c] # None
    /\ LET r == inflight[c][1]
           res == PostHandler(entries, r, now)
           e == [client |-> c, write |-> res.write, status |-> res.resp.status]
       IN  /\ entries' = res.entries
           /\ lastReq' = r
           /\ resp' = res.resp
           /\ lastWrite' = Written(res)
           /\ overwrote' = Overwrites(res)
           /\ applied' =
                IF \E c2 \in Clients \ {c} : inflight[c2] # None
                THEN <<e>>
                ELSE IF Len(applied) = 1 /\ applied[1].client # c
                     THEN Append(applied, e)
                     ELSE <<>>
    /\ inflight' = [inflight EXCEPT ![c] = None]
    /\ UNCHANGED <<client, users, now, dashboard>>

NextRace ==
    \/ \E c \in Clients : \E r \in RaceRequests : Send(c, r)
    \/ \E c \in Clients : Deliver(c)
    \/ Tick

SpecRace == Init /\ [][NextRace]_vars

----------------------------------------------------------------------------
(* The read operations over drawn entry sets *)

\* the evaluation date of the drawn entry sets: 2024-03-01
CalcToday == Day0 + 2

SavedRow(u, date) == Row(u, date, Some(TextA), None, 0)
SkippedRow(u, date) == Row(u, date, None, None, 1)

\* user 1's rows for the days today - Window .. today, by the status st[i] of
\* day today - i, and a row under a timestamp key if stray
WindowRows(st, stray) ==
    {SavedRow(1, formatDate(CalcToday - i)) : i \in {j \in 0..Window : st[j] = "saved"}}
    \cup {SkippedRow(1, formatDate(CalcToday - i)) :
            i \in {j \in 0..Window : st[j] = "skipped"}}
    \cup (IF stray THEN {SavedRow(1, Stamp(CalcToday - 1))} ELSE {})

\* user 1's rows for a run of len saved days ending today, without day today - hole
RunRows(len, hole) ==
    {SavedRow(1, formatDate(CalcToday - i)) : i \in (0..(len - 1)) \ {hole}}

\* user 2 has saved an entry on every day of the window
OtherRows == {SavedRow(2, formatDate(CalcToday - i)) : i \in 0..Window}

InitCalc ==
    /\ now = CalcToday
    /\ lastReq = NoRequest
    /\ resp = NoResponse
    /\ inflight = [c \in Clients |-> None]
    /\ applied = <<>>
    /\ lastWrite = <<>>
    /\ overwrote = FALSE
    /\ dashboard = None
    /\ state = InitialState(now)
    /\ pending = EmptyBag
    /\ \E su \in 0..(Window + 1) :
          users = [u \in Users |-> User(u, formatDate(CalcToday - su))]
    /\ \/ \E st \in [0..Window -> {"none", "saved", "skipped"}] :
          \E stray \in BOOLEAN :
             entries = SetToBag(WindowRows(st, stray) \cup OtherRows)
       \/ \E len \in (LOOKBACK - 1)..(LOOKBACK + MaxOver) :
          \E hole \in {0 - 1, 1, LOOKBACK - 1, LOOKBACK} :
             entries = SetToBag(RunRows(len, hole) \cup OtherRows)

NextCalc == \E u \in Users : GetDashboard(u)

SpecCalc == InitCalc /\ [][NextCalc]_vars

----------------------------------------------------------------------------
(* The month and export reads over drawn entry sets *)

\* the evaluation date: 2024-05-01
ReadToday == DaysFromCivil(2024, 5, 1)

\* the days user 1 may hold a row for: the last days of a 29-day, a 31-day and
\* a 30-day month and the first days of the months after them
ReadDays ==
    {DaysFromCivil(2024, 2, 29), DaysFromCivil(2024, 3, 31), DaysFromCivil(2024, 4, 1),
     DaysFromCivil(2024, 4, 30), ReadToday}

\* user 1's rows: a saved row with the rating, or a skipped row, per day by its
\* status, and the rows under the timestamp keys strays
ReadRows(st, rating, strays) ==
    {Row(1, formatDate(day), Some(TextA), rating, 0) :
        day \in {x \in ReadDays : st[x] = "saved"}}
    \cup {SkippedRow(1, formatDate(day)) : day \in {x \in ReadDays : st[x] = "skipped"}}
    \cup {Row(1, Stamp(day), Some(TextA), rating, 0) : day \in strays}

\* user 2 has saved the last day of March and the first of April
ReadOtherRows ==
    {SavedRow(2, formatDate(DaysFromCivil(2024, 3, 31))),
     SavedRow(2, formatDate(DaysFromCivil(2024, 4, 1)))}

InitRead ==
    /\ now = ReadToday
    /\ users = [u \in Users |-> User(u, formatDate(DaysFromCivil(2024, 2, 29)))]
    /\ lastReq = NoRequest
    /\ resp = NoResponse
    /\ inflight = [c \in Clients |-> None]
    /\ applied = <<>>
    /\ lastWrite = <<>>
    /\ overwrote = FALSE
    /\ dashboard = None
    /\ state = InitialState(now)
    /\ pending = EmptyBag
    /\ \E st \in [ReadDays -> {"none", "saved", "skipped"}] :
       \E rating \in {None, Some(1), Some(2), Some(3)} :
       \E strays \in {{}, {DaysFromCivil(2024, 3, 30)}, {DaysFromCivil(2024, 3, 31)}} :
          entries = SetToBag(ReadRows(st, rating, strays) \cup ReadOtherRows)

NextRead ==
    \/ \E u \in Users : \E m \in 2..5 : GetMonth(u, 2024, m)
    \/ \E u \in Users : GetExport(u)

SpecRead == InitRead /\ [][NextRead]_vars

----------------------------------------------------------------------------
(* Upserts in any order of days, around the signup date *)

\* the day the clock starts at here: 2024-02-29
OrderToday == Day0 + 1

\* signup dates: two days before the first day, the day before it, and that day
SignupDays == {OrderToday - 2, OrderToday - 1, OrderToday}

\* user 1 saves and skips the days from two days back to tomorrow, also with a
\* text that is too short
OrderRequests ==
    {PostRequest(1, Some(formatDate(OrderToday + k)), p) :
        k \in (0 - 2)..1,
        p \in StoredPayloads \cup {Payload(Some(PaddedShort), None, FALSE)}}

InitOrder ==
    /\ entries = EmptyBag
    /\ \E su \in SignupDays : users = [u \in Users |-> User(u, formatDate(su))]
    /\ now = OrderToday
    /\ lastReq = NoRequest
    /\ resp = NoResponse
    /\ inflight = [c \in Clients |-> None]
    /\ applied = <<>>
    /\ lastWrite = <<>>
    /\ overwrote = FALSE
    /\ dashboard = None
    /\ state = InitialState(now)
    /\ pending = EmptyBag

NextOrder ==
    \/ \E r \in OrderRequests : Post(r)
    \/ Tick
    \/ \E u \in Users : GetDashboard(u)

SpecOrder == InitOrder /\ [][NextOrder]_vars

----------------------------------------------------------------------------
(* A dashboard request served while midnight passes *)

\* the handler runs to completion, and midnight may pass between two of its
\* readings of the clock
GetDashboardOverMidnight(u) ==
    \E k1 \in {0, 1} : \E k2 \in {0, 1} :
        /\ now + k1 + k2 <= Day0 + MaxTicks
        /\ lastReq' = [op |-> "dashboard", user |-> u]
        /\ resp' = DashboardHandlerAt(entries, users, u, now, now + k1, now + k1 + k2)
        /\ now' = now + k1 + k2
        /\ UNCHANGED <<client, entries, users, inflight, applied, lastWrite, overwrote, dashboard>>

NextMidnight ==
    \/ \E r \in OrderRequests : Post(r)
    \/ \E u \in Users : GetDashboardOverMidnight(u)
    \/ Tick

SpecMidnight == Init /\ [][NextMidnight]_vars

----------------------------------------------------------------------------
(* The upsert with every column of the entries table                       *)
(* Here the rows of entries also carry id, created_at and updated_at;      *)
(* createOrUpdateEntry above is the same statement seen on the columns     *)
(* user_id, date, text, rating, skipped.  Timestamps are the clock at the  *)
(* model's granularity of a day.                                           *)

\* the columns user_id, date, text, rating, skipped of the table E
Project(E) ==
    LET cols(r) == Row(r.user_id, r.date, r.text, r.rating, r.skipped)
    IN  BagOfAll(cols, E)

\* the ids INTEGER PRIMARY KEY AUTOINCREMENT can give a new row: larger than
\* every id in the table (ids spent on upserts that ended as updates may be
\* skipped)
NewIds(E) == {i \in 1..MaxId : \A r \in Rows(E) : r.id < i}

\* INSERT OR REPLACE: the row in conflict is deleted and a new row inserted
createOrUpdateEntryRow_replace(E, id, userId, date, text, skipped, rating, stamp) ==
    LET hit == Conflicts(E, userId, date)
        new == [id |-> id, user_id |-> userId, date |-> date, text |-> text,
                rating |-> rating, skipped |-> IF skipped THEN 1 ELSE 0,
                created_at |-> stamp, updated_at |-> stamp]
    IN  [r \in Rows(E) \ hit |-> E[r]] (+) SetToBag({new})

\* INSERT INTO entries (user_id, date, text, rating, skipped, created_at,
\* updated_at) VALUES (...) ON CONFLICT(user_id, date) DO UPDATE SET text,
\* rating, skipped, updated_at; id is the id a new row gets
createOrUpdateEntryRow(E, id, userId, date, text, skipped, rating, stamp) ==
    LET hit == Conflicts(E, userId, date)
        sk == IF skipped THEN 1 ELSE 0
    IN  IF hit = {}
        THEN E (+) SetToBag({[id |-> id, user_id |-> userId, date |-> date,
                              text |-> text, rating |-> rating, skipped |-> sk,
                              created_at |-> stamp, updated_at |-> stamp]})
        ELSE LET old == CHOOSE r \in hit : TRUE
             IN  (E (-) SetToBag({old}))
                 (+) SetToBag({[old EXCEPT !.text = text, !.rating = rating,
                                           !.skipped = sk, !.updated_at = stamp]})

\* user 1 saves and skips the first two days
UpsertRequests ==
    {PostRequest(1, Some(formatDate(Day0 + k)), p) : k \in 0..1, p \in StoredPayloads}

\* router.post('/') handles the request r and the statement writes the row
Upsert(r) ==
    LET res == PostHandler(Project(entries), r, now)
    IN  /\ lastReq' = r
        /\ resp' = res.resp
        /\ lastWrite' = Written(res)
        /\ overwrote' = Overwrites(res)
        /\ IF res.write = None
           THEN entries' = entries
           ELSE LET w == res.write[1]
                    \* an update takes no id from the sequence
                    ids == IF Conflicts(entries, w.user, w.date) = {}
                           THEN NewIds(entries) ELSE {0}
                IN  \E id \in ids :
                       entries' = createOrUpdateEntryRow(entries, id, w.user, w.date,
                                                         w.text, w.skipped, w.rating,
                                                         now)
        /\ UNCHANGED <<client, users, now, inflight, applied, dashboard>>

NextUpsert ==
    \/ \E r \in UpsertRequests : Upsert(r)
    \/ Tick

SpecUpsert == Init /\ [][NextUpsert]_vars

----------------------------------------------------------------------------
(* Two users on the same days: every operation of the route *)

\* each user saves and skips the first day, under its date and under a
\* timestamp of it
OwnRequests ==
    {PostRequest(u, Some(d), p) :
        u \in Users, d \in {formatDate(Day0), Stamp(Day0)},
        p \in {Payload(None, None, TRUE), Payload(Some(PaddedB), Some(2), FALSE)}}

NextOwn ==
    \/ \E r \in OwnRequests : Post(r)
    \/ \E u \in Users : GetDashboard(u)
    \/ \E u \in Users : GetStats(u)
    \/ \E u \in Users : \E d \in {formatDate(Day0), Stamp(Day0)} : GetEntry(u, d)
    \/ \E u \in Users : \E m \in AskedMonths : GetMonth(u, CivilFromDays(Day0).y, m)
    \/ \E u \in Users : GetRandom(u)
    \/ \E u \in Users : GetExport(u)

SpecOwn == Init /\ [][NextOwn]_vars

----------------------------------------------------------------------------
(* The browser: the dashboard flow (frontend application)                  *)

\* the main section drawn with today's form put before the backfill form
renderDashboard_todayFirst(d) ==
    IF d.todayEntry = None \/ d.todayEntry[1].skipped
    THEN [section |-> "form", date |-> None]
    ELSE IF Len(d.missedDays) > 0
         THEN [section |-> "backfill", date |-> Some(d.missedDays[1])]
         ELSE [section |-> "view", date |-> None]

\* renderDashboard: the main section of the page for the dashboard data d, and
\* the day its buttons are bound to (the today form reads the clock on click)
renderDashboard(d) ==
    LET oldestMissedDay ==
            IF Len(d.missedDays) > 0 THEN Some(d.missedDays[1]) ELSE None
    IN  IF oldestMissedDay # None
        THEN [section |-> "backfill", date |-> oldestMissedDay]
        ELSE IF d.todayEntry # None /\ ~d.todayEntry[1].skipped
             THEN [section |-> "view", date |-> None]
             ELSE [section |-> "form", date |-> None]

\* the checks of handleSaveEntry / handleBackfillEntry before the request:
\* text.trim() is not empty and text.length (untrimmed) reaches MIN_CHARS
ClientTextOk(text) == trim(text) # <<>> /\ length(text) >= MIN_CHARS

\* what the user types and selects in a form
FormTexts == {TextA, PaddedShort, Blank}
FormRatings == {None, Some(2)}

\* loadDashboard: fetchDashboard stores the response in state.dashboard
loadDashboard(u) ==
    /\ IF dashboard = None THEN TRUE ELSE dashboard[1].user = u
    /\ lastReq' = [op |-> "dashboard", user |-> u]
    /\ resp' = DashboardHandler(entries, users, u, now)
    /\ dashboard' = Some([user |-> u, data |-> resp'.body])
    /\ UNCHANGED <<client, entries, users, now, inflight, applied, lastWrite, overwrote>>

\* logout: state.token = null; state.user = null; state.dashboard = null
logout ==
    /\ dashboard # None \/ state.user # None
    /\ dashboard' = None
    /\ state' = [state EXCEPT !.token = None, !.user = None]
    /\ UNCHANGED <<pending, entries, users, now, lastReq, resp, inflight, applied,
                   lastWrite, overwrote>>

\* the upsert sent without the reload of the dashboard after it
SubmitAndReload_noReload(r) ==
    LET res == PostHandler(entries, r, now)
    IN  /\ BagCardinality(res.entries) <= MaxRows
        /\ entries' = res.entries
        /\ lastReq' = r
        /\ resp' = res.resp
        /\ lastWrite' = Written(res)
        /\ overwrote' = Overwrites(res)
        /\ dashboard' = dashboard
        /\ UNCHANGED <<client, users, now, inflight, applied>>

\* saveEntry / skipDay followed by loadDashboard: api() throws on a 4xx response
\* and the handler then leaves state.dashboard as it is.  lastReq and resp keep
\* the upsert; the response to the reload goes to state.dashboard.
SubmitAndReload(r) ==
    LET res == PostHandler(entries, r, now)
    IN  /\ BagCardinality(res.entries) <= MaxRows
        /\ entries' = res.entries
        /\ lastReq' = r
        /\ resp' = res.resp
        /\ lastWrite' = Written(res)
        /\ overwrote' = Overwrites(res)
        /\ dashboard' =
              IF res.resp.status = 200
              THEN Some([user |-> r.user,
                         data |-> DashboardHandler(res.entries, users, r.user,
                                                   now).body])
              ELSE dashboard
        /\ UNCHANGED <<client, users, now, inflight, applied>>

handleBackfillEntry(text, rating) ==
    /\ dashboard # None
    /\ renderDashboard(dashboard[1].data).section = "backfill"
    /\ ClientTextOk(text)
    /\ SubmitAndReload(PostRequest(dashboard[1].user,
                                   renderDashboard(dashboard[1].data).date,
                                   Payload(Some(text), rating, FALSE)))

handleSkipDay ==
    /\ dashboard # None
    /\ renderDashboard(dashboard[1].data).section = "backfill"
    /\ SubmitAndReload(PostRequest(dashboard[1].user,
                                   renderDashboard(dashboard[1].data).date,
                                   Payload(None, None, TRUE)))

\* the today form sends getTodayString(), the date at the time of the click
handleSaveEntry(text, rating) ==
    /\ dashboard # None
    /\ renderDashboard(dashboard[1].data).section = "form"
    /\ ClientTextOk(text)
    /\ SubmitAndReload(PostRequest(dashboard[1].user, Some(formatDate(now)),
                                   Payload(Some(text), rating, FALSE)))

NextFlow ==
    \/ \E u \in Users : loadDashboard(u)
    \/ logout
    \/ \E text \in FormTexts : \E rating \in FormRatings :
          handleBackfillEntry(text, rating)
    \/ handleSkipDay
    \/ \E text \in FormTexts : \E rating \in FormRatings :
          handleSaveEntry(text, rating)
    \/ Tick

SpecFlow == Init /\ [][NextFlow]_vars

\* the user resolves the offered missed day and the request succeeds
ResolveOk ==
    /\ \/ handleSkipDay
       \/ \E text \in FormTexts : \E rating \in FormRatings :
             handleBackfillEntry(text, rating)
    /\ resp'.status = 200

\* the dashboard flow of one user, who keeps resolving the day the backfill
\* form offers
NextResolve ==
    \/ loadDashboard(1)
    \/ logout
    \/ \E text \in FormTexts : \E rating \in FormRatings :
          handleBackfillEntry(text, rating)
    \/ handleSkipDay
    \/ \E text \in FormTexts : \E rating \in FormRatings :
          handleSaveEntry(text, rating)
    \/ Tick

SpecResolve == Init /\ [][NextResolve]_vars /\ WF_vars(ResolveOk)

----------------------------------------------------------------------------
(* The browser: session, calendar and profile (frontend application)       *)
(* A call to the server is in flight from api() until its response or its  *)
(* error returns it to the function that awaits it; calls return in any    *)
(* order.                                                                   *)

getFullYear(date) == CivilFromDays(date).y
getMonth(date) == CivilFromDays(date).m - 1

\* Date.prototype.setMonth(month): the same day of the month in the month of
\* index month of the same year (-1 and 12 carry into the year); a day past
\* the end of that month carries into the month after it (MakeDay)
setMonth(date, month) ==
    LET c == CivilFromDays(date)
        k == c.y * 12 + month
    IN  DaysFromCivil(k \div 12, (k % 12) + 1, c.d)

\* the months between the calendar month of date and the current month
MonthsAway(date) ==
    LET k == (getFullYear(date) * 12 + getMonth(date))
             - (getFullYear(now) * 12 + getMonth(now))
    IN  IF k < 0 THEN 0 - k ELSE k

\* a call in flight: the function that awaits it, the api function awaited and
\* the user of the token api() put in the Authorization header
Call(fn, awaited, token) == [fn |-> fn, await |-> awaited, user |-> token]

\* fetchMonthEntries(year, month) in flight
MonthCall(fn, token, date) ==
    [fn |-> fn, await |-> "fetchMonthEntries", user |-> token,
     year |-> getFullYear(date), month |-> getMonth(date) + 1]

Awaited(awaited) == {p \in BagToSet(pending) : p.await = awaited /\ p.user # None}

\* render() draws the dashboard page, with the PROFILE and LOGOUT buttons
DashboardShown == state.user # None /\ ~state.showProfile

\* renderDashboard draws the calendar below the main section
CalendarShown == DashboardShown /\ ~state.loading /\ dashboard # None

\* handleAuth, login succeeding: login() stores token and user, loadDashboard
\* sets state.loading and awaits fetchDashboard
handleAuth(u) ==
    /\ state.user = None
    /\ BagCardinality(pending) < MaxPending
    /\ state' = [state EXCEPT !.token = Some(u), !.user = Some(u), !.loading = TRUE]
    /\ pending' = pending (+) SetToBag({Call("loadDashboard", "fetchDashboard", Some(u))})
    /\ UNCHANGED <<entries, users, now, lastReq, resp, inflight, applied, lastWrite,
                   overwrote, dashboard>>

\* fetchDashboard returns to loadDashboard, which calls fetchMonthEntries for
\* the month of state.currentDate
fetchDashboard(p) ==
    /\ p \in Awaited("fetchDashboard")
    /\ lastReq' = [op |-> "dashboard", user |-> p.user[1]]
    /\ resp' = DashboardHandler(entries, users, p.user[1], now)
    /\ dashboard' = Some([user |-> p.user[1], data |-> resp'.body])
    /\ pending' = (pending (-) SetToBag({p}))
                  (+) SetToBag({MonthCall(p.fn, state.token, state.currentDate)})
    /\ UNCHANGED <<state, entries, users, now, inflight, applied, lastWrite, overwrote>>

\* fetchMonthEntries returns: to loadDashboard, which clears state.loading, or
\* to prevMonth / nextMonth
fetchMonthEntries(p) ==
    /\ p \in Awaited("fetchMonthEntries")
    /\ lastReq' = [op |-> "month", user |-> p.user[1], year |-> p.year,
                   month |-> p.month]
    /\ resp' = MonthHandler(entries, p.user[1], p.year, p.month)
    /\ state' = [state EXCEPT !.monthEntries = resp'.body.entries,
                              !.loading = IF p.fn = "loadDashboard" THEN FALSE ELSE @]
    /\ pending' = pending (-) SetToBag({p})
    /\ UNCHANGED <<entries, users, now, inflight, applied, lastWrite, overwrote,
                   dashboard>>

\* fetchStats returns to showProfile, which clears state.loading
fetchStats(p) ==
    /\ p \in Awaited("fetchStats")
    /\ lastReq' = [op |-> "stats", user |-> p.user[1]]
    /\ resp' = StatsHandler(entries, p.user[1], now)
    /\ state' = [state EXCEPT !.profileStats = Some(resp'.body), !.loading = FALSE]
    /\ pending' = pending (-) SetToBag({p})
    /\ UNCHANGED <<entries, users, now, inflight, applied, lastWrite, overwrote,
                   dashboard>>

\* api() throws (the request fails, or the response is not ok): showProfile
\* catches the error and clears state.loading; loadDashboard, prevMonth and
\* nextMonth end with the error
apiThrows(p) ==
    /\ p \in BagToSet(pending)
    /\ pending' = pending (-) SetToBag({p})
    /\ state' = [state EXCEPT !.loading = IF p.fn = "showProfile" THEN FALSE ELSE @]
    /\ UNCHANGED <<entries, users, now, lastReq, resp, inflight, applied, lastWrite,
                   overwrote, dashboard>>

\* prevMonth (delta = -1) and nextMonth (delta = 1)
MoveMonth(fn, delta) ==
    LET date == setMonth(state.currentDate, getMonth(state.currentDate) + delta)
    IN  /\ CalendarShown
        /\ BagCardinality(pending) < MaxPending
        /\ MonthsAway(date) <= MaxMonths
        /\ state' = [state EXCEPT !.currentDate = date]
        /\ pending' = pending (+) SetToBag({MonthCall(fn, state.token, date)})
        /\ UNCHANGED <<entries, users, now, lastReq, resp, inflight, applied,
                       lastWrite, overwrote, dashboard>>

prevMonth == MoveMonth("prevMonth", 0 - 1)

nextMonth == MoveMonth("nextMonth", 1)

showProfile ==
    /\ DashboardShown
    /\ BagCardinality(pending) < MaxPending
    /\ state' = [state EXCEPT !.showProfile = TRUE, !.loading = TRUE]
    /\ pending' = pending (+) SetToBag({Call("showProfile", "fetchStats", state.token)})
    /\ UNCHANGED <<entries, users, now, lastReq, resp, inflight, applied, lastWrite,
                   overwrote, dashboard>>

\* the Back button of the profile page, drawn when state.loading is false
hideProfile ==
    /\ state.user # None /\ state.showProfile /\ ~state.loading
    /\ state' = [state EXCEPT !.showProfile = FALSE]
    /\ UNCHANGED <<pending, entries, users, now, lastReq, resp, inflight, applied,
                   lastWrite, overwrote, dashboard>>

\* the days the page is loaded on
ClientDays ==
    {DaysFromCivil(2024, 3, 15), DaysFromCivil(2024, 3, 31), DaysFromCivil(2024, 1, 30)}

\* each user holds an entry on a day of every month from September 2023 to
\* July 2024, the months the calendar can show, and user 2 one entry more
ClientRows ==
    {Row(u, formatDate(setMonth(DaysFromCivil(2023, 9, 9 + u), 8 + k)), Some(TextA),
         Some(u), 0) : u \in Users, k \in 0..10}
    \cup {Row(2, formatDate(DaysFromCivil(2024, 3, 12)), Some(TextA), None, 0)}

InitClient ==
    /\ entries = SetToBag(ClientRows)
    /\ now \in ClientDays
    /\ users = [u \in Users |-> User(u, formatDate(now - 2))]
    /\ lastReq = NoRequest
    /\ resp = NoResponse
    /\ inflight = [c \in Clients |-> None]
    /\ applied = <<>>
    /\ lastWrite = <<>>
    /\ overwrote = FALSE
    /\ dashboard = None
    /\ state = InitialState(now)
    /\ pending = EmptyBag

\* the session of the page: login, loading, profile and logout, every call
\* returning its response or failing
NextClient ==
    \/ \E u \in Users : handleAuth(u)
    \/ \E p \in BagToSet(pending) : fetchDashboard(p)
    \/ \E p \in BagToSet(pending) : fetchMonthEntries(p)
    \/ \E p \in BagToSet(pending) : fetchStats(p)
    \/ \E p \in BagToSet(pending) : apiThrows(p)
    \/ showProfile
    \/ hideProfile
    \/ logout

SpecClient == InitClient /\ [][NextClient]_vars

\* one user moving the calendar, every call returning its response
NextMonths ==
    \/ handleAuth(1)
    \/ \E p \in BagToSet(pending) : fetchDashboard(p)
    \/ \E p \in BagToSet(pending) : fetchMonthEntries(p)
    \/ prevMonth
    \/ nextMonth

SpecMonths == InitClient /\ [][NextMonths]_vars

----------------------------------------------------------------------------
(* Vocabulary of the claims *)

IsLeap(y) == y % 4 = 0 /\ (y % 100 # 0 \/ y % 400 = 0)

DaysInMonth(y, m) ==
    IF m = 2 THEN (IF IsLeap(y) THEN 29 ELSE 28)
    ELSE IF m \in {4, 6, 9, 11} THEN 30 ELSE 31

\* the calendar day a date value names: the day of its leading YYYY-MM-DD
NamedDay(s) == DaysFromCivil(s.y, s.m, s.d)

\* s is the date "YYYY-MM-DD" of a calendar day, and nothing else
IsCalendarDate(s) ==
    s.sfx = "" /\ s.m \in 1..12 /\ s.d \in 1..DaysInMonth(s.y, s.m)

\* the date value s names a day after the day today
Later(s, today) == NamedDay(s) > today

\* the row the write w leaves in the table
RowOf(w) == Row(w.user, w.date, w.text, w.rating, IF w.skipped THEN 1 ELSE 0)

\* this step is the server handling the upsert request lastReq'
PostStep == lastReq'.op = "post" /\ now' = now

\* C1: the table holds at most one row per (user, date); every key that was
\* written holds exactly one row, and that row carries the text, rating and
\* skipped flag of the latest write to the key.
C1_OneRowPerKeyLatestWrite ==
    /\ \A r \in Rows(entries) :
          /\ CopiesIn(r, entries) = 1
          /\ Conflicts(entries, r.user_id, r.date) = {r}
          /\ <<r.user_id, r.date>> \in DOMAIN lastWrite
    /\ \A k \in DOMAIN lastWrite :
          Conflicts(entries, k[1], k[2]) = {RowOf(lastWrite[k])}

\* a second upsert of a key, with another text, has been applied
C1_Witness ==
    /\ overwrote
    /\ lastReq.op = "post" /\ resp.status = 200 /\ ~lastReq.skipped
    /\ Conflicts(entries, lastReq.user, lastReq.date[1])
         = {Row(lastReq.user, lastReq.date[1], Some(trim(lastReq.text[1])),
                lastReq.rating, 0)}

\* C5 (as claimed): an upsert whose date is later than today fails with a
\* validation error and changes no row.
C5_FutureDateRejected ==
    [][(PostStep /\ lastReq'.date # None /\ Later(lastReq'.date[1], now))
        => (resp'.status = 400 /\ entries' = entries)]_vars

\* C6 (as claimed): an upsert with skipped = true and no text, for a date that
\* is present and not later than today, succeeds and leaves an entry with text
\* absent and rating absent, whatever rating was passed.
C6_SkipSucceedsAnyRating ==
    [][(PostStep /\ lastReq'.skipped /\ lastReq'.text = None
        /\ lastReq'.date # None /\ ~Later(lastReq'.date[1], now))
        => /\ resp'.status = 200
           /\ Conflicts(entries', lastReq'.user, lastReq'.date[1])
                = {Row(lastReq'.user, lastReq'.date[1], None, None, 1)}]_vars

\* C6 (amended): an upsert with skipped = true and no text, for a date that is
\* present and not later than today, and with a rating that is absent or one
\* of 1, 2, 3, succeeds and leaves an entry with text absent and rating absent,
\* whichever of these ratings was passed.
C6_SkipSucceedsValidRating ==
    [][(PostStep /\ lastReq'.skipped /\ lastReq'.text = None
        /\ lastReq'.date # None /\ ~Later(lastReq'.date[1], now)
        /\ (lastReq'.rating = None \/ lastReq'.rating[1] \in {1, 2, 3}))
        => /\ resp'.status = 200
           /\ Conflicts(entries', lastReq'.user, lastReq'.date[1])
                = {Row(lastReq'.user, lastReq'.date[1], None, None, 1)}]_vars

\* a skip request that carried a rating has been accepted over a saved entry
C6_Witness ==
    /\ lastReq.op = "post" /\ lastReq.skipped /\ lastReq.text = None
    /\ lastReq.rating = Some(3)
    /\ resp.status = 200 /\ resp.body.message = "Day skipped"
    /\ overwrote
    /\ Row(lastReq.user, lastReq.date[1], None, None, 1) \in Rows(entries)

\* the request r is one the claim C7 says must be refused
C7_Refused(r) ==
    \/ r.date = None
    \/ ~r.skipped /\ (r.text = None \/ length(trim(r.text[1])) < MIN_CHARS)
    \/ r.rating # None /\ r.rating[1] \notin {1, 2, 3}

\* C7: an upsert fails with a validation error and leaves the table unchanged
\* whenever the date is missing, or it is not skipped and its text is absent,
\* empty, whitespace-only or shorter than MIN_CHARS after trimming, or a rating
\* is supplied that is not 1, 2 or 3.
C7_InvalidRequestRefused ==
    [][(PostStep /\ C7_Refused(lastReq'))
        => (resp'.status = 400 /\ entries' = entries)]_vars

\* a text of MIN_CHARS + 1 characters, MIN_CHARS - 1 of them after trimming,
\* has been refused while the table held rows
C7_Witness ==
    /\ lastReq.op = "post" /\ ~lastReq.skipped /\ lastReq.date # None
    /\ lastReq.text = Some(PaddedShort)
    /\ resp.status = 400
    /\ resp.body.error = "Entry must be at least 100 characters"
    /\ entries # EmptyBag

\* C8: every row with skipped = 1 has text and rating absent, every row with
\* skipped = 0 has a text of at least MIN_CHARS characters, and every rating is
\* absent or one of 1, 2, 3.
C8_RowInvariant ==
    \A r \in Rows(entries) :
        /\ r.skipped \in {0, 1}
        /\ r.skipped = 1 => (r.text = None /\ r.rating = None)
        /\ r.skipped = 0 => (r.text # None /\ length(r.text[1]) >= MIN_CHARS)
        /\ r.rating = None \/ r.rating[1] \in {1, 2, 3}

\* the table holds a skipped row written by a request that carried a rating,
\* and a saved row with a rating
C8_Witness ==
    /\ lastReq.op = "post" /\ lastReq.skipped /\ lastReq.rating # None
    /\ resp.status = 200
    /\ \E r \in Rows(entries) : r.skipped = 1 /\ r.date = lastReq.date[1]
    /\ \E r \in Rows(entries) : r.skipped = 0 /\ r.rating # None

\* C9 (as claimed): no stored entry has a date later than the current date.
C9_NoFutureEntry == \A r \in Rows(entries) : ~Later(r.date, now)

\* the days on which the user has a qualifying entry
QualifyingDays(E, userId) ==
    {NamedDay(r.date) : r \in {q \in Qualifying(E, userId) : IsCalendarDate(q.date)}}

\* the length of the longest run of consecutive days in the set days
LongestRun(days) ==
    LET fits(n) == n = 0 \/ \E d \in days : \A i \in 0..(n - 1) : d + i \in days
    IN  CHOOSE n \in 0..Cardinality(days) :
            fits(n) /\ (n = Cardinality(days) \/ ~fits(n + 1))

\* the longest run among the user's qualifying entries: a single entry is a run
\* of 1, entries on consecutive calendar days form longer runs
ExpectedLongest(E, userId) ==
    Max(LongestRun(QualifyingDays(E, userId)),
        IF Qualifying(E, userId) = {} THEN 0 ELSE 1)

\* C3 (as claimed): the longest streak is the length of the longest run of
\* qualifying entries on consecutive calendar days.
C3_LongestStreakIsLongestRun ==
    (lastReq.op = "stats" /\ resp.status = 200)
        => resp.body.longestStreak = ExpectedLongest(entries, lastReq.user)

\* the user has a qualifying entry for the calendar day: a row keyed by the
\* date of that day, not skipped and with a text
HasQualifying(E, userId, day) ==
    \E r \in Rows(E) :
        /\ r.user_id = userId /\ r.skipped = 0 /\ r.text # None
        /\ IsCalendarDate(r.date) /\ NamedDay(r.date) = day

\* the user has an entry row, skipped or not, for the calendar day
HasEntry(E, userId, day) ==
    \E r \in Rows(E) :
        r.user_id = userId /\ IsCalendarDate(r.date) /\ NamedDay(r.date) = day

\* C2: the current streak is the number k of consecutive calendar days today,
\* today - 1, ..., today - k + 1 that each have a qualifying entry, where day
\* today - k has none or k = LOOKBACK.
C2_CurrentStreak ==
    (lastReq.op \in {"dashboard", "stats"} /\ resp.status = 200)
        => LET k == IF lastReq.op = "dashboard" THEN resp.body.streak
                    ELSE resp.body.currentStreak
               u == lastReq.user
           IN  /\ k \in 0..LOOKBACK
               /\ \A i \in 0..(k - 1) : HasQualifying(entries, u, now - i)
               /\ k = LOOKBACK \/ ~HasQualifying(entries, u, now - k)

\* the walk stopped at the lookback bound although the day before has an entry
C2_Witness ==
    /\ lastReq.op = "dashboard" /\ resp.status = 200
    /\ resp.body.streak = LOOKBACK
    /\ HasQualifying(entries, lastReq.user, now - LOOKBACK)

\* C4: missed days is exactly the list of the calendar dates d with
\* signup <= d <= yesterday for which the user has no entry row at all, in
\* strictly ascending order.
C4_MissedDays ==
    (lastReq.op = "dashboard" /\ resp.status = 200)
        => LET md == resp.body.missedDays
               u == lastReq.user
               signup == NamedDay(users[u].signup_date)
           IN  /\ \A i \in 1..Len(md) : IsCalendarDate(md[i])
               /\ {NamedDay(md[i]) : i \in 1..Len(md)}
                    = {d \in signup..(now - 1) : ~HasEntry(entries, u, d)}
               /\ \A i \in 1..Len(md) : \A j \in 1..Len(md) :
                     i < j => NamedDay(md[i]) < NamedDay(md[j])

\* signed up 5 days ago, a saved entry on day 1 and a skipped one on day 3:
\* the missed days are days 2, 4 and 5
C4_Witness ==
    /\ lastReq.op = "dashboard" /\ lastReq.user = 1 /\ resp.status = 200
    /\ users[1].signup_date = formatDate(now - 5)
    /\ {d \in (now - 5)..now : HasEntry(entries, 1, d)} = {now - 5, now - 3}
    /\ SkippedRow(1, formatDate(now - 3)) \in Rows(entries)
    /\ resp.body.missedDays
         = <<formatDate(now - 4), formatDate(now - 2), formatDate(now - 1)>>

\* C10: when two upserts of one (user, date) were in flight together and both
\* were applied, the table holds exactly one row for the key, and it carries the
\* text, rating and skipped flag of the one applied last.
C10_LastWriterWins ==
    (/\ Len(applied) = 2
     /\ applied[1].write # None /\ applied[2].write # None
     /\ applied[1].write[1].user = applied[2].write[1].user
     /\ applied[1].write[1].date = applied[2].write[1].date)
        => LET w == applied[2].write[1]
           IN  /\ Conflicts(entries, w.user, w.date) = {RowOf(w)}
               /\ CopiesIn(RowOf(w), entries) = 1

\* two upserts of one key that differ in text and rating raced and were applied
C10_Witness ==
    /\ Len(applied) = 2
    /\ applied[1].write # None /\ applied[2].write # None
    /\ applied[1].write[1].user = applied[2].write[1].user
    /\ applied[1].write[1].date = applied[2].write[1].date
    /\ applied[1].write[1].text # applied[2].write[1].text
    /\ applied[1].write[1].text # None /\ applied[2].write[1].text # None
    /\ applied[1].write[1].rating # applied[2].write[1].rating


\* C11: in the dashboard flow, while the dashboard's missed-days list is not
\* empty the only upsert the page sends is for the oldest missed day,
\* missedDays[0]; an upsert for today is sent only when the list is empty.
C11_BackfillBeforeToday ==
    [][(PostStep /\ dashboard' # None)
        => /\ dashboard # None
           /\ LET d == dashboard[1].data
                  page == renderDashboard(d)
              IN  /\ d.missedDays # <<>>
                        => /\ page.section = "backfill"
                           /\ lastReq'.date = Some(d.missedDays[1])
                  /\ d.missedDays = <<>>
                        => /\ page.section = "form"
                           /\ lastReq'.date = Some(formatDate(now))]_vars

\* the oldest of two missed days has been backfilled from the page while today
\* has no entry, and the page now offers the next missed day
C11_Witness ==
    /\ lastReq.op = "post" /\ resp.status = 200
    /\ NamedDay(lastReq.date[1]) = now - 2
    /\ getEntry(entries, lastReq.user, formatDate(now)) = None
    /\ dashboard # None
    /\ dashboard[1].data.missedDays = <<formatDate(now - 1)>>
    /\ renderDashboard(dashboard[1].data).date = Some(formatDate(now - 1))

\* C12: the upsert route enforces no order of days: a request that passes the
\* checks of date, text and rating, for a date not later than today, is
\* accepted and written whatever days are still missed and whatever the signup
\* date is.
C12_AnyPastDateAccepted ==
    [][(PostStep /\ ~C7_Refused(lastReq') /\ ~Later(lastReq'.date[1], now))
        => /\ resp'.status = 200
           /\ Conflicts(entries', lastReq'.user, lastReq'.date[1])
                = {Row(lastReq'.user, lastReq'.date[1], StoredText(lastReq'),
                       StoredRating(lastReq'), IF lastReq'.skipped THEN 1 ELSE 0)}]_vars

\* an entry for today has been accepted while an older day is still missed, and
\* the user also holds a row dated before the signup date
C12_Witness ==
    /\ lastReq.op = "post" /\ resp.status = 200
    /\ lastReq.date = Some(formatDate(now))
    /\ getMissedDays(entries, lastReq.user, users[lastReq.user].signup_date, now) # <<>>
    /\ \E r \in Rows(entries) :
          /\ r.user_id = lastReq.user
          /\ NamedDay(r.date) < NewDate(users[lastReq.user].signup_date)

\* C13: no step removes a row: every (user, date) key that has a row keeps one,
\* and a dashboard response never lists as missed a date that the user ever
\* logged or skipped.
C13_NeverDeleted ==
    [][/\ \A r \in Rows(entries) : Conflicts(entries', r.user_id, r.date) # {}
       /\ lastReq'.op = "dashboard"
             => \A i \in DOMAIN resp'.body.missedDays :
                   <<lastReq'.user, resp'.body.missedDays[i]>> \notin DOMAIN lastWrite']_vars

\* a dashboard lists a missed day for a user who, after writing a past day, has
\* written another key
C13_Witness ==
    /\ lastReq.op = "dashboard" /\ resp.status = 200
    /\ resp.body.missedDays = <<formatDate(now - 2)>>
    /\ <<lastReq.user, formatDate(now - 1)>> \in DOMAIN lastWrite
    /\ <<lastReq.user, formatDate(now)>> \in DOMAIN lastWrite

\* C14: random entry selection answers 404 (never a placeholder entry) for a
\* user with no qualifying entry, and otherwise returns one of the user's
\* qualifying entries; every qualifying entry of a user is a possible result.
C14_RandomEntry ==
    /\ lastReq.op = "random"
          => LET q == Qualifying(entries, lastReq.user)
             IN  IF q = {}
                 THEN resp = NotFound("No entries found")
                 ELSE /\ resp.status = 200
                      /\ \E r \in q :
                            resp.body = [date |-> r.date, text |-> r.text,
                                         rating |-> r.rating]
    /\ \A u \in Users : \A r \in Qualifying(entries, u) :
          ENABLED (GetRandom(u) /\ resp' = RandomHandler(Some(r)))

\* a user with two qualifying entries and a skipped day got the later of the
\* two entries
C14_Witness ==
    /\ lastReq.op = "random" /\ resp.status = 200
    /\ Cardinality(Qualifying(entries, lastReq.user)) = 2
    /\ \E r \in Rows(entries) : r.user_id = lastReq.user /\ r.skipped = 1
    /\ \E r \in Qualifying(entries, lastReq.user) : StrLess(r.date, resp.body.date)

\* C15: for a user with no qualifying entry (no rows, or only skipped rows) the
\* current streak is 0 and the longest streak is 0.
C15_NoEntriesNoStreak ==
    /\ (lastReq.op = "stats" /\ Qualifying(entries, lastReq.user) = {})
          => (resp.body.currentStreak = 0 /\ resp.body.longestStreak = 0)
    /\ (lastReq.op = "dashboard" /\ Qualifying(entries, lastReq.user) = {})
          => resp.body.streak = 0

\* the stats of a user whose only rows are skipped days, today's among them
C15_Witness ==
    /\ lastReq.op = "stats" /\ resp.status = 200
    /\ Qualifying(entries, lastReq.user) = {}
    /\ \E r \in Rows(entries) :
          r.user_id = lastReq.user /\ r.skipped = 1 /\ r.date = formatDate(now)

\* the label of a rating as the claim C16 gives it
C16_Label(rating) ==
    IF rating = None THEN None
    ELSE Some(CASE rating[1] = 1 -> "Small win"
                [] rating[1] = 2 -> "Made my day"
                [] rating[1] = 3 -> "Pure joy")

\* C16: the export holds exactly one item per stored row of the user, skipped
\* rows included, each with the row's text, rating and skipped flag and the
\* label of its rating (absent when the rating is absent); its totals are the
\* number of qualifying entries and the current streak.
C16_ExportSnapshot ==
    lastReq.op = "export"
        => LET u == lastReq.user
               mine == {r \in Rows(entries) : r.user_id = u}
               items == resp.body.entries
               k == resp.body.stats.currentStreak
               today == NamedDay(resp.body.exportedAt)
           IN  /\ resp.status = 200
               /\ DOMAIN items = {r.date : r \in mine}
               /\ Cardinality(DOMAIN items)
                     = BagCardinality([r \in mine |-> entries[r]])
               /\ \A r \in mine :
                     items[r.date] = [text |-> r.text, rating |-> r.rating,
                                      ratingLabel |-> C16_Label(r.rating),
                                      skipped |-> r.skipped = 1]
               /\ resp.body.stats.totalEntries = Cardinality(Qualifying(entries, u))
               /\ \A i \in 0..(k - 1) : HasQualifying(entries, u, today - i)
               /\ k = LOOKBACK \/ ~HasQualifying(entries, u, today - k)

\* an export with a skipped row, rated entries under 'Pure joy', and a streak
\* of two days
C16_Witness ==
    /\ lastReq.op = "export" /\ resp.status = 200
    /\ \E d \in DOMAIN resp.body.entries : resp.body.entries[d].skipped
    /\ \E d \in DOMAIN resp.body.entries :
          resp.body.entries[d].ratingLabel = Some("Pure joy")
    /\ resp.body.stats.currentStreak = 2
    /\ resp.body.stats.totalEntries < Cardinality(DOMAIN resp.body.entries)

\* the date string names a day of the calendar month
InMonth(s, year, month) ==
    s.y = year /\ s.m = month /\ s.d \in 1..DaysInMonth(year, month)

\* C20 (as claimed): the keys of the month mapping are exactly the dates of the
\* user's rows that fall in the calendar month, skipped rows included, and each
\* value carries the row's text, rating and skipped flag.
C20_MonthEntries ==
    lastReq.op = "month"
        => LET u == lastReq.user
               mine == {r \in Rows(entries) :
                          r.user_id = u /\ InMonth(r.date, lastReq.year, lastReq.month)}
               map == resp.body.entries
           IN  /\ resp.status = 200
               /\ DOMAIN map = {r.date : r \in mine}
               /\ \A r \in mine :
                     map[r.date] = [text |-> r.text, rating |-> r.rating,
                                    skipped |-> r.skipped = 1]

\* C17: a successful upsert for (user u, date d) creates or changes only the
\* row keyed (u, d): every other row of the table and every user record is
\* unchanged.
C17_OnlyTheKeyedRow ==
    [][(PostStep /\ resp'.status = 200)
        => LET other(r) == ~(r.user_id = lastReq'.user /\ r.date = lastReq'.date[1])
           IN  /\ \A r \in Rows(entries) \cup Rows(entries') :
                     other(r) => CopiesIn(r, entries') = CopiesIn(r, entries)
               /\ users' = users]_vars

\* an upsert replaced a row while the table held a row of the other user for
\* the same date and another row of the same user
C17_Witness ==
    /\ lastReq.op = "post" /\ resp.status = 200 /\ overwrote
    /\ \E r \in Rows(entries) : r.user_id # lastReq.user /\ r.date = lastReq.date[1]
    /\ \E r \in Rows(entries) : r.user_id = lastReq.user /\ r.date # lastReq.date[1]

\* the responses a read request q can get from the stores E, U at the clock t
ReadResults(q, E, U, t) ==
    CASE q.op = "entry" -> {EntryHandler(E, q.user, q.date)}
      [] q.op = "month" -> {MonthHandler(E, q.user, q.year, q.month)}
      [] q.op = "dashboard" -> {DashboardHandler(E, U, q.user, t)}
      [] q.op = "random" -> {RandomHandler(e) : e \in getRandomEntry(E, q.user)}
      [] q.op = "stats" -> {StatsHandler(E, q.user, t)}
      [] q.op = "export" -> {ExportHandler(E, U, q.user, t)}

\* C18: the read operations (get entry, month entries, dashboard, random entry,
\* stats, export) leave the entries and users tables unchanged, and their
\* response is determined by the request, the tables and the clock at the call.
C18_ReadsAreReadOnly ==
    [][(now' = now
        /\ lastReq'.op \in {"entry", "month", "dashboard", "random", "stats", "export"})
        => /\ entries' = entries
           /\ users' = users
           /\ resp' \in ReadResults(lastReq', entries, users, now)]_vars

\* a read has answered from a table that holds rows of both users, after the
\* clock advanced
C18_Witness ==
    /\ lastReq.op = "export" /\ resp.status = 200
    /\ now > Day0
    /\ DOMAIN resp.body.entries # {}
    /\ \E r \in Rows(entries) : r.user_id # lastReq.user

\* C19 (as claimed): the streak, the missed days, today's entry and the
\* reported today of one dashboard response are all computed against one and the
\* same calendar date, the reported one.
C19_OneDatePerDashboard ==
    lastReq.op = "dashboard"
        => LET day == NamedDay(resp.body.today)
               u == lastReq.user
               k == resp.body.streak
           IN  /\ \A i \in 0..(k - 1) : HasQualifying(entries, u, day - i)
               /\ k = LOOKBACK \/ ~HasQualifying(entries, u, day - k)
               /\ resp.body.missedDays
                     = getMissedDays(entries, u, users[u].signup_date, day)
               /\ resp.body.todayEntry = EntryView(getEntry(entries, u, resp.body.today))

\* C21: an upsert that hits an existing (user, date) row replaces the row's
\* text, rating, skipped flag and update timestamp, whatever the row held, and
\* leaves its creation timestamp and its id as they were at the first insert.
C21_UpdateKeepsIdAndCreation ==
    [][(PostStep /\ resp'.status = 200
        /\ Conflicts(entries, lastReq'.user, lastReq'.date[1]) # {})
        => \E old \in Conflicts(entries, lastReq'.user, lastReq'.date[1]) :
              Conflicts(entries', lastReq'.user, lastReq'.date[1])
                = {[id |-> old.id, user_id |-> old.user_id, date |-> old.date,
                    text |-> StoredText(lastReq'),
                    rating |-> StoredRating(lastReq'),
                    skipped |-> IF lastReq'.skipped THEN 1 ELSE 0,
                    created_at |-> old.created_at,
                    updated_at |-> now]}]_vars

\* the first row of the table, created a day earlier, has been overwritten with
\* another text while the table holds a younger row
C21_Witness ==
    /\ lastReq.op = "post" /\ resp.status = 200 /\ overwrote
    /\ \E r \in Conflicts(entries, lastReq.user, lastReq.date[1]) :
          /\ r.created_at < r.updated_at /\ r.updated_at = now
          /\ \E q \in Rows(entries) : q.id > r.id

\* C22 (as claimed): the values the stats operation reports satisfy
\* 0 <= current streak <= longest streak <= total qualifying entries.
C22_StatsOrdered ==
    (lastReq.op = "stats" /\ resp.status = 200)
        => /\ 0 <= resp.body.currentStreak
           /\ resp.body.currentStreak <= resp.body.longestStreak
           /\ resp.body.longestStreak <= resp.body.totalEntries

\* C23: with the date fixed, a resolution of the offered oldest missed day
\* that succeeds (handleBackfillEntry or handleSkipDay) is sent for that day,
\* and the dashboard loaded after it lists the missed days of the dashboard
\* before it without that day and with no other day added; a dashboard with no
\* missed day shows today's form or today's entry; and a user who keeps
\* resolving leaves the backfill form after finitely many resolutions.
C23_ResolutionsTerminate ==
    /\ [][(/\ dashboard # None
           /\ renderDashboard(dashboard[1].data).section = "backfill"
           /\ dashboard[1].data.today = formatDate(now)
           /\ PostStep /\ resp'.status = 200 /\ dashboard' # None)
          => /\ lastReq'.date = Some(Head(dashboard[1].data.missedDays))
             /\ dashboard'[1].data.missedDays = Tail(dashboard[1].data.missedDays)
             /\ (dashboard'[1].data.missedDays = <<>>
                   => renderDashboard(dashboard'[1].data).section \in {"form", "view"})]_vars
    /\ (dashboard # None /\ renderDashboard(dashboard[1].data).section = "backfill")
          ~> (dashboard = None \/ renderDashboard(dashboard[1].data).section # "backfill")

\* two missed days have been resolved, one with a text and one skipped, and the
\* dashboard loaded after the second offers today's form
C23_Witness ==
    /\ lastReq.op = "post" /\ resp.status = 200
    /\ NamedDay(lastReq.date[1]) = now - 1
    /\ dashboard # None
    /\ dashboard[1].data.missedDays = <<>>
    /\ renderDashboard(dashboard[1].data).section = "form"
    /\ \E r \in Rows(entries) :
          r.user_id = lastReq.user /\ r.date = formatDate(now - 2)
    /\ \E r, q \in Rows(entries) :
          r.user_id = lastReq.user /\ q.user_id = lastReq.user
          /\ r.skipped = 1 /\ q.skipped = 0

\* C24 (as claimed): every run of loadDashboard leaves state.loading false,
\* also when fetchDashboard or fetchMonthEntries fails: when no call awaited by
\* loadDashboard or showProfile (the two functions that set state.loading) is in
\* flight any more, state.loading is false.
C24_LoadingCleared ==
    (\A p \in BagToSet(pending) : p.fn \notin {"loadDashboard", "showProfile"})
        => ~state.loading

\* C25 (as claimed): once every call of loadDashboard, prevMonth and nextMonth
\* has returned its response, state.monthEntries holds the user's entries of
\* the month of state.currentDate, in whatever order the responses arrived.
C25_MonthEntriesOfShownMonth ==
    (state.user # None /\ pending = EmptyBag)
        => state.monthEntries
             = MonthHandler(entries, state.user[1], getFullYear(state.currentDate),
                            getMonth(state.currentDate) + 1).body.entries

\* C28 (as claimed): prevMonth moves the month of state.currentDate back by
\* exactly one month and nextMonth forward by exactly one month, whatever the
\* day of the month in state.currentDate is.
C28_MovesOneMonth ==
    [][/\ (\E p \in BagToSet(pending') :
              p.fn = "prevMonth" /\ CopiesIn(p, pending') > CopiesIn(p, pending))
          => (getFullYear(state'.currentDate) * 12 + getMonth(state'.currentDate)
                = getFullYear(state.currentDate) * 12 + getMonth(state.currentDate) - 1)
       /\ (\E p \in BagToSet(pending') :
              p.fn = "nextMonth" /\ CopiesIn(p, pending') > CopiesIn(p, pending))
          => (getFullYear(state'.currentDate) * 12 + getMonth(state'.currentDate)
                = getFullYear(state.currentDate) * 12 + getMonth(state.currentDate) + 1)]_vars

\* C26 (as claimed): after logout the browser's state holds nothing fetched for
\* the user who logged out: token, user, dashboard, monthEntries and
\* profileStats are cleared and showProfile is false.
C26_LogoutClearsState ==
    [][(state.user # None /\ state'.user = None)
        => /\ state'.token = None
           /\ dashboard' = None
           /\ state'.monthEntries = <<>>
           /\ state'.profileStats = None
           /\ ~state'.showProfile]_vars

\* the rows of user userId in the table E
OwnRows(E, userId) == [r \in {q \in Rows(E) : q.user_id = userId} |-> E[r]]

\* tables that agree with E on the rows of userId and hold other rows for the
\* other users: none, a saved day, a skipped day and a row under a timestamp
\* key, or E's own
OtherStores(E, userId) ==
    {OwnRows(E, userId) (+) SetToBag(X) :
        X \in {{},
               {Row(u, formatDate(Day0 + 1), Some(TextA), Some(3), 0) :
                    u \in Users \ {userId}},
               UNION {{SavedRow(u, formatDate(Day0)), SkippedRow(u, formatDate(Day0 + 1)),
                       SavedRow(u, Stamp(Day0 + 1))} : u \in Users \ {userId}}}}
    \cup {E}

\* users tables that agree with U on the record of userId
OtherUsers(U, userId) ==
    {[u \in Users |-> IF u = userId THEN U[u] ELSE User(u, formatDate(Day0 + k))] :
        k \in {0, 1}}
    \cup {U}

\* C27: the result of an entry operation for user A depends only on A's rows
\* and A's user record: every table that agrees with the store on A's rows and
\* every users table that agrees on A's record give A the same results; and no
\* operation issued as A changes a row or the record of another user.
C27_OwnRowsOnly ==
    [][(now' = now
        /\ lastReq'.op \in {"entry", "month", "dashboard", "random", "stats", "export",
                            "post"})
        => /\ \A r \in Rows(entries) \cup Rows(entries') :
                 r.user_id # lastReq'.user
                    => CopiesIn(r, entries') = CopiesIn(r, entries)
           /\ users' = users
           /\ \A E \in OtherStores(entries, lastReq'.user) :
              \A U \in OtherUsers(users, lastReq'.user) :
                 IF lastReq'.op = "post"
                 THEN /\ resp' = PostHandler(E, lastReq', now).resp
                      /\ OwnRows(entries', lastReq'.user)
                           = OwnRows(PostHandler(E, lastReq', now).entries,
                                     lastReq'.user)
                 ELSE /\ resp' \in ReadResults(lastReq', E, U, now)
                      /\ ReadResults(lastReq', E, U, now)
                           = ReadResults(lastReq', entries, users, now)]_vars

\* the stats of a user with an entry have been answered from a table that also
\* holds an entry and a skipped day of the other user
C27_Witness ==
    /\ lastReq.op = "stats" /\ resp.status = 200
    /\ resp.body.totalEntries = 1
    /\ \E r, q \in Rows(entries) :
          /\ r.user_id # lastReq.user /\ r.skipped = 0
          /\ q.user_id # lastReq.user /\ q.skipped = 1

========================================================================
